---- MODULE Spec2Model ----
(***************************************************************************)
(* Model of script.js: deployBombs and the six "bomb countdown" variants,  *)
(* run on a single-threaded event loop (timer queue + microtask queue)     *)
(* against a shared display sink (clear / printText) and console.log.     *)
(* Time is counted in milliseconds; the clock moves in steps of one second.*)
(***************************************************************************)
EXTENDS Integers, Sequences, FiniteSets, TLC

VARIABLES
    phase,      \* "start" before the entry call, "running" after it returned or threw
    now,        \* clock of the event loop, in ms
    late,       \* how many times the clock moved on while a timer was already due
    timers,     \* pending setTimeout callbacks
    micro,      \* microtask queue (promise jobs of sixthBomb)
    prom,       \* states of sixthBomb's promises
    adopt,      \* inner promises that carry the reaction resolving their chain promise
    nextSteps,  \* fourthBomb's nextSteps array
    display,    \* lines on the textarea, each tagged with the bomb that wrote it
    trans,      \* per bomb: the sink calls it performed, with the time of each
    log,        \* console.log lines, in order
    thrown,     \* bombs in which a sink call threw
    sinkFails,  \* whether the display sink of this run can throw at all
    invoked     \* per bomb: the calls of its step functions (fourthBomb's steps,
                \* tickBomb, promiseToPrintText's callbackFunction), with their arguments

vars == <<phase, now, late, timers, micro, prom, adopt, nextSteps, display, trans, log, thrown,
          sinkFails, invoked>>

\* ---------------------------------------------------------------- bounds
MaxLate == 1
MaxFaults == 1
MaxWait == 1
MaxTick == 5

\* ------------------------------------------------------------- constants
Second == 1000
Gap == 5

Bombs == 1..6

\* ------------------------------------------------------------ display sink
clear == [op |-> "clear", text |-> ""]

printText(text) == [op |-> "printText", text |-> text]

\* The calls of a handler that take effect when its k-th sink call throws
\* (k = 0: none throws).
Performed(calls, k) == IF k = 0 THEN calls ELSE SubSeq(calls, 1, k - 1)

RECURSIVE Show(_, _, _)
Show(d, b, calls) ==
    IF calls = <<>> THEN d
    ELSE Show(IF Head(calls).op = "clear" THEN <<>>
              ELSE Append(d, [by |-> b, text |-> Head(calls).text]),
              b, Tail(calls))

Stamp(calls) == [i \in 1..Len(calls) |-> [op |-> calls[i].op, text |-> calls[i].text, at |-> now]]

\* Outcomes of a handler making n sink calls: 0, or the index of the call that throws.
Outcomes(n) == {0} \cup (IF sinkFails /\ Cardinality(thrown) < MaxFaults THEN 1..n ELSE {})

Sink(b, calls, k) ==
    /\ trans' = [trans EXCEPT ![b] = @ \o Stamp(Performed(calls, k))]
    /\ display' = Show(display, b, Performed(calls, k))
    /\ thrown' = IF k = 0 THEN thrown ELSE thrown \cup {b}

\* ------------------------------------------------------------------ timer
setTimeout(b, cb, n, s, ms) == [bomb |-> b, cb |-> cb, n |-> n, s |-> s, due |-> now + ms]

Due == {t \in timers : t.due <= now}

\* A handler's description: its sink calls, the console line after them,
\* and the timers it sets, as [cb, n, s, ms].
Step(calls, logs, next) == [calls |-> calls, log |-> logs, next |-> next]

After(cb, n, s, ms) == [cb |-> cb, n |-> n, s |-> s, ms |-> ms]

\* ------------------------------------------------------------- firstBomb
\* firstBomb without its console.log.
firstBombSilent ==
    Step(<<clear,
           printText("The 1st bomb goes off in..."),
           printText("3..."),
           printText("2..."),
           printText("1..."),
           printText("Boom!")>>,
         <<>>, {})

firstBomb ==
    Step(<<clear,
           printText("The 1st bomb goes off in..."),
           printText("3..."),
           printText("2..."),
           printText("1..."),
           printText("Boom!")>>,
         <<"The 1st bomb exploded.">>, {})

\* ------------------------------------------------------------ secondBomb
secondBomb(initialWait) == setTimeout(2, "init", 0, "", initialWait * Second)

\* secondBomb with its first two timers set side by side instead of nested.
secondBombCallbackFlat(cb) ==
    CASE cb = "init" ->
           Step(<<clear, printText("The 2nd bomb goes off in...")>>, <<>>,
                {After("three", 0, "", Second), After("two", 0, "", 2 * Second)})
      [] cb = "three" -> Step(<<printText("3...")>>, <<>>, {})
      [] cb = "two" -> Step(<<printText("2...")>>, <<>>, {After("one", 0, "", Second)})
      [] cb = "one" -> Step(<<printText("1...")>>, <<>>, {After("boom", 0, "", Second)})
      [] cb = "boom" -> Step(<<printText("Boom!")>>, <<"The 2nd bomb exploded.">>, {})

\* secondBomb logging its explosion a step early, when it prints "1...".
secondBombCallbackEarlyLog(cb) ==
    CASE cb = "init" ->
           Step(<<clear, printText("The 2nd bomb goes off in...")>>, <<>>,
                {After("three", 0, "", Second)})
      [] cb = "three" -> Step(<<printText("3...")>>, <<>>, {After("two", 0, "", Second)})
      [] cb = "two" -> Step(<<printText("2...")>>, <<>>, {After("one", 0, "", Second)})
      [] cb = "one" -> Step(<<printText("1...")>>, <<"The 2nd bomb exploded.">>,
                            {After("boom", 0, "", Second)})
      [] cb = "boom" -> Step(<<printText("Boom!")>>, <<>>, {})

secondBombCallback(cb) ==
    CASE cb = "init" ->
           Step(<<clear, printText("The 2nd bomb goes off in...")>>, <<>>,
                {After("three", 0, "", Second)})
      [] cb = "three" -> Step(<<printText("3...")>>, <<>>, {After("two", 0, "", Second)})
      [] cb = "two" -> Step(<<printText("2...")>>, <<>>, {After("one", 0, "", Second)})
      [] cb = "one" -> Step(<<printText("1...")>>, <<>>, {After("boom", 0, "", Second)})
      [] cb = "boom" -> Step(<<printText("Boom!")>>, <<"The 2nd bomb exploded.">>, {})

\* ------------------------------------------------------------- thirdBomb
thirdBomb(initialWait) == setTimeout(3, "initBomb", 0, "", initialWait * Second)

\* thirdBomb whose oneSecLeft forgets to set the timer for boom.
thirdBombCallbackNoBoom(cb) ==
    CASE cb = "initBomb" ->
           Step(<<clear, printText("The 3rd bomb goes off in...")>>, <<>>,
                {After("threeSecLeft", 0, "", Second)})
      [] cb = "threeSecLeft" ->
           Step(<<printText("3...")>>, <<>>, {After("twoSecLeft", 0, "", Second)})
      [] cb = "twoSecLeft" ->
           Step(<<printText("2...")>>, <<>>, {After("oneSecLeft", 0, "", Second)})
      [] cb = "oneSecLeft" -> Step(<<printText("1...")>>, <<>>, {})
      [] cb = "boom" -> Step(<<printText("Boom!")>>, <<"The 3rd bomb exploded.">>, {})

thirdBombCallback(cb) ==
    CASE cb = "initBomb" ->
           Step(<<clear, printText("The 3rd bomb goes off in...")>>, <<>>,
                {After("threeSecLeft", 0, "", Second)})
      [] cb = "threeSecLeft" ->
           Step(<<printText("3...")>>, <<>>, {After("twoSecLeft", 0, "", Second)})
      [] cb = "twoSecLeft" ->
           Step(<<printText("2...")>>, <<>>, {After("oneSecLeft", 0, "", Second)})
      [] cb = "oneSecLeft" ->
           Step(<<printText("1...")>>, <<>>, {After("boom", 0, "", Second)})
      [] cb = "boom" -> Step(<<printText("Boom!")>>, <<"The 3rd bomb exploded.">>, {})

\* ------------------------------------------------------------ fourthBomb
fourthBomb(initialWait) == setTimeout(4, "initBomb", 0, "", initialWait * Second)

fourthBombSteps == <<"oneSecLeft", "twoSecLeft", "threeSecLeft", "boom">>

\* Array.prototype.shift: the removed first item (undefined on an empty array).
Shifted(q) == IF q = <<>> THEN "undefined" ELSE Head(q)

Rest(q) == IF q = <<>> THEN <<>> ELSE Tail(q)

\* The step functions of fourthBomb, called with the queue q that is left.
fourthBombStep(fn, q) ==
    CASE fn = "threeSecLeft" ->
           Step(<<printText("3...")>>, <<>>, {After("nextStep", 0, Shifted(q), Second)})
      [] fn = "twoSecLeft" ->
           Step(<<printText("2...")>>, <<>>, {After("nextStep", 0, Shifted(q), Second)})
      [] fn = "oneSecLeft" ->
           Step(<<printText("1...")>>, <<>>, {After("nextStep", 0, Shifted(q), Second)})
      [] fn = "boom" -> Step(<<printText("Boom!")>>, <<"The 4th bomb exploded.">>, {})
      [] OTHER -> Step(<<>>, <<>>, {})  \* undefined is not a function: TypeError

\* ------------------------------------------------------------- fifthBomb
fifthBomb(initialWait) == setTimeout(5, "initBomb", 0, "", initialWait * Second)

fifthBombInit ==
    Step(<<clear, printText("The 5th bomb goes off in...")>>, <<>>,
         {After("tickBomb", 3, "", Second)})

\* tickBomb counting down by two.
tickBombSkip(timeLeft) ==
    IF timeLeft <= 0
    THEN Step(<<printText("Boom!")>>, <<"The 5th bomb exploded.">>, {})
    ELSE Step(<<printText(ToString(timeLeft) \o "...")>>, <<>>,
              {After("tickBomb", timeLeft - 2, "", Second)})

\* tickBomb testing timeLeft < 0 instead of timeLeft <= 0.
tickBombOffByOne(timeLeft) ==
    IF timeLeft < 0
    THEN Step(<<printText("Boom!")>>, <<"The 5th bomb exploded.">>, {})
    ELSE Step(<<printText(ToString(timeLeft) \o "...")>>, <<>>,
              {After("tickBomb", timeLeft - 1, "", Second)})

tickBomb(timeLeft) ==
    IF timeLeft <= 0
    THEN Step(<<printText("Boom!")>>, <<"The 5th bomb exploded.">>, {})
    ELSE Step(<<printText(ToString(timeLeft) \o "...")>>, <<>>,
              {After("tickBomb", timeLeft - 1, "", Second)})

\* ------------------------------------------------------------- sixthBomb
sixthBomb(initialWait) == setTimeout(6, "start", 0, "", initialWait * Second)

\* sixthBomb.initBomb printing before it clears.
sixthBombInitClearLate ==
    Step(<<printText("The 6th bomb goes off in..."), clear>>, <<>>, {})

sixthBombInit == Step(<<clear, printText("The 6th bomb goes off in...")>>, <<>>, {})

\* The chain with twoSecLeft and threeSecLeft exchanged.
sixthBombChainSwapped == <<"twoSecLeft", "threeSecLeft", "oneSecLeft", "boom">>

\* The handlers of the chain initBomb().then(...).then(...).then(...).then(...)
sixthBombChain == <<"threeSecLeft", "twoSecLeft", "oneSecLeft", "boom">>

Links == 1..Len(sixthBombChain)

\* What handler fn passes to promiseToPrintText: the message and the callback.
sixthBombHandler(fn) ==
    CASE fn = "threeSecLeft" -> [msg |-> "3...", callbackFunction |-> "printText"]
      [] fn = "twoSecLeft" -> [msg |-> "2...", callbackFunction |-> "printText"]
      [] fn = "oneSecLeft" -> [msg |-> "1...", callbackFunction |-> "printText"]
      [] fn = "boom" -> [msg |-> "Boom!", callbackFunction |-> "boomCallback"]

\* boom's callback logging without printing.
callbackFunctionLogOnly(f, msg) ==
    IF f = "printText"
    THEN Step(<<printText(msg)>>, <<>>, {})
    ELSE Step(<<>>, <<"The 6th bomb exploded.">>, {})

\* The callback promiseToPrintText's timer runs with msg.
callbackFunction(f, msg) ==
    IF f = "printText"
    THEN Step(<<printText(msg)>>, <<>>, {})
    ELSE Step(<<printText(msg)>>, <<"The 6th bomb exploded.">>, {})

\* promiseToPrintText with a two-second timer.
promiseToPrintTextSlow(i, msg, f) ==
    [promise |-> "pending", timer |-> setTimeout(6, f, i, msg, 2 * Second)]

\* promiseToPrintText resolving its promise at once instead of in the timer.
promiseToPrintTextEager(i, msg, f) ==
    [promise |-> "fulfilled", timer |-> setTimeout(6, f, i, msg, Second)]

\* promiseToPrintText(msg, callbackFunction), called by the i-th handler: the new
\* promise, left pending, and the timer that will run the callback and resolve it.
promiseToPrintText(i, msg, f) ==
    [promise |-> "pending", timer |-> setTimeout(6, f, i, msg, Second)]

\* Promises: chain[0] is initBomb()'s, chain[i] the one the i-th .then returns,
\* inner[i] the one promiseToPrintText returns inside the i-th handler.
NoPromises == [chain |-> [i \in 0..Len(sixthBombChain) |-> "none"],
               inner |-> [i \in Links |-> "none"]]

\* ------------------------------------------------------------------ state
Init ==
    /\ phase = "start"
    /\ now = 0
    /\ late = 0
    /\ timers = {}
    /\ micro = <<>>
    /\ prom = NoPromises
    /\ adopt = {}
    /\ nextSteps = <<>>
    /\ display = <<>>
    /\ trans = [b \in Bombs |-> <<>>]
    /\ log = <<>>
    /\ thrown = {}
    /\ sinkFails \in BOOLEAN
    /\ invoked = [b \in Bombs |-> <<>>]

\* ------------------------------------------------------------ entry calls
\* deployBombs leaving four seconds instead of five between secondBomb and thirdBomb.
deployBombsCallsTight ==
    LET d1 == 0
        d2 == d1 + 1
        d3 == d2 + 4
        d4 == d3 + 5
        d5 == d4 + 5
        d6 == d5 + 5
    IN <<[bomb |-> 1, wait |-> d1], [bomb |-> 2, wait |-> d2], [bomb |-> 3, wait |-> d3],
         [bomb |-> 4, wait |-> d4], [bomb |-> 5, wait |-> d5], [bomb |-> 6, wait |-> d6]>>

\* deployBombs assigning the delay instead of adding to it.
deployBombsCallsAssigned ==
    <<[bomb |-> 1, wait |-> 0], [bomb |-> 2, wait |-> 1], [bomb |-> 3, wait |-> 5],
      [bomb |-> 4, wait |-> 5], [bomb |-> 5, wait |-> 5], [bomb |-> 6, wait |-> 5]>>

\* deployBombs' calls, with the delay it accumulates between them.
deployBombsCalls ==
    LET d1 == 0
        d2 == d1 + 1
        d3 == d2 + 5
        d4 == d3 + 5
        d5 == d4 + 5
        d6 == d5 + 5
    IN <<[bomb |-> 1, wait |-> d1], [bomb |-> 2, wait |-> d2], [bomb |-> 3, wait |-> d3],
         [bomb |-> 4, wait |-> d4], [bomb |-> 5, wait |-> d5], [bomb |-> 6, wait |-> d6]>>

\* What calling a timed bomb does: it sets the bomb's first timer.
Call(b, initialWait) ==
    CASE b = 2 -> secondBomb(initialWait)
      [] b = 3 -> thirdBomb(initialWait)
      [] b = 4 -> fourthBomb(initialWait)
      [] b = 5 -> fifthBomb(initialWait)
      [] b = 6 -> sixthBomb(initialWait)

\* One synchronous run of a script that makes the given calls in order and then
\* logs `done`.  firstBomb runs inside the call; when one of its sink calls
\* throws, the exception leaves the script and the later calls are not made.
Launch(calls, done) ==
    /\ phase = "start"
    /\ phase' = "running"
    /\ LET at == {i \in DOMAIN calls : calls[i].bomb = 1}
       IN \E k \in (IF at = {} THEN {0} ELSE Outcomes(Len(firstBomb.calls))) :
            LET made == IF k = 0 THEN DOMAIN calls
                        ELSE {i \in DOMAIN calls : \A j \in at : i < j}
            IN /\ IF at = {} THEN UNCHANGED <<trans, display, thrown>>
                  ELSE Sink(1, firstBomb.calls, k)
               /\ timers' = {Call(calls[i].bomb, calls[i].wait) :
                                i \in {j \in made : calls[j].bomb # 1}}
               /\ log' = IF k # 0 THEN log
                         ELSE log \o (IF at = {} THEN <<>> ELSE firstBomb.log) \o done
    /\ UNCHANGED <<now, late, micro, prom, adopt, nextSteps, sinkFails, invoked>>

deployBombs == Launch(deployBombsCalls, <<"All bombs deployed.">>)

\* Two bombs called directly, one after the other, with any initial waits.
CallTwo ==
    /\ phase = "start"
    /\ \E a \in Bombs, b \in Bombs, wa \in 0..MaxWait, wb \in 0..MaxWait :
          /\ a # b
          /\ Launch(<<[bomb |-> a, wait |-> wa], [bomb |-> b, wait |-> wb]>>, <<>>)

\* ------------------------------------------------------------- event loop
\* A timer callback runs when it is due and no microtask is waiting.
Turn(t) == micro = <<>> /\ t \in Due

\* A handler that carries on after a sink call threw (the call alone is lost).
RunOn(t, step, k) ==
    /\ Sink(t.bomb, step.calls, k)
    /\ timers' = (timers \ {t}) \cup
                 {setTimeout(t.bomb, a.cb, a.n, a.s, a.ms) : a \in step.next}
    /\ log' = IF k = 0 THEN log \o step.log ELSE log

\* A call of function fn of bomb b with number n, text s or array q as its
\* argument, and how many sink calls the bomb had made when it was called.
Invocation(b, fn, n, s, q) == [fn |-> fn, n |-> n, s |-> s, q |-> q, seen |-> Len(trans[b])]

\* The handler of timer t performs `step`; its k-th sink call throws (0: none).
Run(t, step, k) ==
    /\ Sink(t.bomb, step.calls, k)
    /\ timers' = (timers \ {t}) \cup
                 (IF k = 0
                  THEN {setTimeout(t.bomb, a.cb, a.n, a.s, a.ms) : a \in step.next}
                  ELSE {})
    /\ log' = IF k = 0 THEN log \o step.log ELSE log

secondBombTimer(t) ==
    /\ Turn(t) /\ t.bomb = 2
    /\ \E k \in Outcomes(Len(secondBombCallback(t.cb).calls)) :
          Run(t, secondBombCallback(t.cb), k)
    /\ UNCHANGED <<phase, now, late, micro, prom, adopt, nextSteps, sinkFails, invoked>>

thirdBombTimer(t) ==
    /\ Turn(t) /\ t.bomb = 3
    /\ \E k \in Outcomes(Len(thirdBombCallback(t.cb).calls)) :
          Run(t, thirdBombCallback(t.cb), k)
    /\ UNCHANGED <<phase, now, late, micro, prom, adopt, nextSteps, sinkFails, invoked>>

\* fourthBomb.initBomb: clear, fill nextSteps, print, set the timer that shifts.
fourthBombInit(t) ==
    /\ Turn(t) /\ t.bomb = 4 /\ t.cb = "initBomb"
    /\ LET step == Step(<<clear, printText("The 4th bomb goes off in...")>>, <<>>,
                        {After("shift", 0, "", Second)})
       IN \E k \in Outcomes(Len(step.calls)) :
            /\ Run(t, step, k)
            /\ nextSteps' = IF k = 1 THEN nextSteps ELSE fourthBombSteps
    /\ UNCHANGED <<phase, now, late, micro, prom, adopt, sinkFails, invoked>>

\* Step functions of fourthBomb that read the first step without removing it.
fourthBombLeftPeek(fn, q) == q

\* The array a step function of fourthBomb leaves behind: all but boom shift once.
fourthBombLeft(fn, q) ==
    IF fn \in {"threeSecLeft", "twoSecLeft", "oneSecLeft"} THEN Rest(q) ELSE q

\* fourthBomb's later timers: the arrow in initBomb shifts the first step off
\* nextSteps and calls it; the arrows of the step functions call the step they
\* shifted when they were set (t.s).
fourthBombTimer(t) ==
    /\ Turn(t) /\ t.bomb = 4 /\ t.cb # "initBomb"
    /\ LET fn == IF t.cb = "shift" THEN Shifted(nextSteps) ELSE t.s
           q == IF t.cb = "shift" THEN Rest(nextSteps) ELSE nextSteps
           step == fourthBombStep(fn, q)
       IN \E k \in Outcomes(Len(step.calls)) :
            /\ Run(t, step, k)
            /\ nextSteps' = IF k = 0 THEN fourthBombLeft(fn, q) ELSE q
            /\ invoked' = [invoked EXCEPT ![4] = Append(@, Invocation(4, fn, 0, "", q))]
    /\ UNCHANGED <<phase, now, late, micro, prom, adopt, sinkFails>>

fifthBombTimer(t) ==
    /\ Turn(t) /\ t.bomb = 5
    /\ LET step == IF t.cb = "initBomb" THEN fifthBombInit ELSE tickBomb(t.n)
       IN \E k \in Outcomes(Len(step.calls)) : Run(t, step, k)
    /\ invoked' = IF t.cb = "initBomb" THEN invoked
                  ELSE [invoked EXCEPT ![5] = Append(@, Invocation(5, "tickBomb", t.n, "", <<>>))]
    /\ UNCHANGED <<phase, now, late, micro, prom, adopt, nextSteps, sinkFails>>

\* Promise jobs of sixthBomb.
ReactionJob(i) == [kind |-> "reaction", i |-> i]

ThenableJob(i) == [kind |-> "thenable", i |-> i]

ResolveJob(i) == [kind |-> "resolve", i |-> i]

\* The chain as the four .then calls leave it: initBomb()'s promise is already
\* resolved, so the first handler's reaction job is queued at once; the others
\* wait on pending promises.
ChainBuilt ==
    [prom EXCEPT !.chain = [i \in 0..Len(sixthBombChain) |->
                               IF i = 0 THEN "fulfilled" ELSE "pending"]]

\* sixthBomb's first timer: initBomb(), then the chain of .then calls.
sixthBombStart(t) ==
    /\ Turn(t) /\ t.bomb = 6 /\ t.cb = "start"
    /\ \E k \in Outcomes(Len(sixthBombInit.calls)) :
         /\ Run(t, sixthBombInit, k)
         /\ prom' = IF k = 0 THEN ChainBuilt ELSE prom
         /\ micro' = IF k = 0 THEN <<ReactionJob(1)>> ELSE micro
    /\ UNCHANGED <<phase, now, late, adopt, nextSteps, sinkFails, invoked>>

\* The timer of promiseToPrintText: callbackFunction(msg), then resolve(msg).
promiseToPrintTextTimer(t) ==
    /\ Turn(t) /\ t.bomb = 6 /\ t.cb # "start"
    /\ \E k \in Outcomes(Len(callbackFunction(t.cb, t.s).calls)) :
         /\ Run(t, callbackFunction(t.cb, t.s), k)
         /\ prom' = IF k = 0 THEN [prom EXCEPT !.inner[t.n] = "fulfilled"] ELSE prom
         /\ micro' = IF k = 0 /\ t.n \in adopt THEN Append(micro, ResolveJob(t.n)) ELSE micro
    /\ invoked' = [invoked EXCEPT ![6] = Append(@, Invocation(6, t.cb, 0, t.s, <<>>))]
    /\ UNCHANGED <<phase, now, late, adopt, nextSteps, sinkFails>>

\* A .then handler runs: it calls promiseToPrintText, which creates the inner
\* promise and sets its timer; the chain promise is resolved with the inner one.
RunReaction ==
    /\ micro # <<>> /\ Head(micro).kind = "reaction"
    /\ LET i == Head(micro).i
           h == sixthBombHandler(sixthBombChain[i])
           p == promiseToPrintText(i, h.msg, h.callbackFunction)
       IN /\ prom' = [prom EXCEPT !.inner[i] = p.promise]
          /\ timers' = timers \cup {p.timer}
          /\ micro' = Append(Tail(micro), ThenableJob(i))
    /\ UNCHANGED <<phase, now, late, adopt, nextSteps, display, trans, log, thrown, sinkFails, invoked>>

\* The chain promise subscribes to the inner promise it was resolved with.
RunThenable ==
    /\ micro # <<>> /\ Head(micro).kind = "thenable"
    /\ LET i == Head(micro).i
       IN IF prom.inner[i] = "pending"
          THEN adopt' = adopt \cup {i} /\ micro' = Tail(micro)
          ELSE adopt' = adopt /\ micro' = Append(Tail(micro), ResolveJob(i))
    /\ UNCHANGED <<phase, now, late, timers, prom, nextSteps, display, trans, log, thrown, sinkFails, invoked>>

\* The inner promise was fulfilled: the chain promise is, and its handler is queued.
RunResolve ==
    /\ micro # <<>> /\ Head(micro).kind = "resolve"
    /\ LET i == Head(micro).i
       IN /\ prom' = [prom EXCEPT !.chain[i] = "fulfilled"]
          /\ micro' = Tail(micro) \o (IF i < Len(sixthBombChain) THEN <<ReactionJob(i + 1)>>
                                      ELSE <<>>)
    /\ UNCHANGED <<phase, now, late, timers, adopt, nextSteps, display, trans, log, thrown, sinkFails, invoked>>

\* The clock moves on by a second.  A timer fires no sooner than it is due; the
\* clock may pass a due timer (the timer is late) at most MaxLate times.
Tick ==
    /\ phase = "running" /\ micro = <<>> /\ timers # {}
    /\ Due = {} \/ late < MaxLate
    /\ now' = now + Second
    /\ late' = IF Due = {} THEN late ELSE late + 1
    /\ UNCHANGED <<phase, timers, micro, prom, adopt, nextSteps, display, trans, log, thrown, sinkFails, invoked>>

Loop ==
    \/ \E t \in timers : secondBombTimer(t)
    \/ \E t \in timers : thirdBombTimer(t)
    \/ \E t \in timers : fourthBombInit(t)
    \/ \E t \in timers : fourthBombTimer(t)
    \/ \E t \in timers : fifthBombTimer(t)
    \/ \E t \in timers : sixthBombStart(t)
    \/ \E t \in timers : promiseToPrintTextTimer(t)
    \/ RunReaction
    \/ RunThenable
    \/ RunResolve
    \/ Tick

\* The program: script.js calls deployBombs.
Next == deployBombs \/ Loop

Spec == Init /\ [][Next]_vars

\* The program under the assumptions that the display sink never throws and that
\* the event loop keeps going: time passes and every due callback and job runs.
SoundInit == Init /\ ~sinkFails

FairSpec == SoundInit /\ [][Next]_vars /\ WF_vars(Next)

\* tickBomb called directly with any timeLeft, positive or not.
TickArgs == (0 - MaxTick)..MaxTick

CallTick(n) ==
    /\ phase = "start"
    /\ phase' = "running"
    /\ \E k \in Outcomes(Len(tickBomb(n).calls)) :
          Run(setTimeout(5, "tickBomb", n, "", 0), tickBomb(n), k)
    /\ invoked' = [invoked EXCEPT ![5] = Append(@, Invocation(5, "tickBomb", n, "", <<>>))]
    /\ UNCHANGED <<now, late, micro, prom, adopt, nextSteps, sinkFails>>

TickNext ==
    \/ \E n \in TickArgs : CallTick(n)
    \/ \E t \in timers : fifthBombTimer(t)
    \/ Tick

\* tickBomb on an event loop that keeps going.
TickSpec == Init /\ [][TickNext]_vars /\ WF_vars(TickNext)

\* The bomb functions called directly, two at a time.
CallNext == CallTwo \/ Loop

CallSpec == Init /\ [][CallNext]_vars

\* ================================================================ claims
IsPrefix(s, t) == Len(s) <= Len(t) /\ SubSeq(t, 1, Len(s)) = s

\* The sink calls of bomb b, without their times.
Calls(b) == [i \in 1..Len(trans[b]) |-> [op |-> trans[b][i].op, text |-> trans[b][i].text]]

\* The texts bomb b wrote, in order.
Written(b) ==
    LET w == SelectSeq(trans[b], LAMBDA e : e.op = "printText")
    IN [i \in 1..Len(w) |-> w[i].text]

Ordinal == <<"1st", "2nd", "3rd", "4th", "5th", "6th">>

Header(b) == "The " \o Ordinal[b] \o " bomb goes off in..."

Boomed(b) == \E i \in 1..Len(trans[b]) : trans[b][i].text = "Boom!"

Complete(b) == Len(trans[b]) = 6 /\ Boomed(b)

\* No timer has fired late so far: every callback ran exactly at its due time.
ExactTimer == late = 0

\* The order in which each bomb's source lists its steps.
StepOrder(b) ==
    <<clear, printText(Header(b))>> \o
    (IF b = 4
     THEN <<printText("1..."), printText("2..."), printText("3..."), printText("Boom!")>>
     ELSE <<printText("3..."), printText("2..."), printText("1..."), printText("Boom!")>>)

\* C1: whatever the initial waits and however the callbacks of different bombs
\* interleave, the sink calls of each bomb are an initial part of that bomb's own
\* step list: none skipped, repeated or out of order.
C1_StepOrder == \A b \in Bombs : IsPrefix(Calls(b), StepOrder(b))

\* Two timed bombs ran to the end in overlapping time windows, the second one
\* starting between two writes of the first.
C1_Witness ==
    \E a \in 2..6, b \in 2..6 :
        /\ a # b /\ Complete(a) /\ Complete(b)
        /\ trans[a][1].at < trans[b][1].at
        /\ trans[b][1].at < trans[a][6].at

\* C2: every bomb writes its header, "3...", "2...", "1...", "Boom!", in this order.
C2_SameTranscript ==
    \A b \in Bombs : IsPrefix(Written(b), <<Header(b), "3...", "2...", "1...", "Boom!">>)

\* C3: under an exact timer all lines on the display come from one bomb.
C3_NoInterleaving ==
    ExactTimer => \A i \in DOMAIN display, j \in DOMAIN display : display[i].by = display[j].by

\* The last bomb's five lines are on the display while the earlier bombs are finished.
C3_Witness ==
    /\ ExactTimer /\ Len(display) = 5 /\ display[5].by = 6
    /\ \A b \in Bombs : Complete(b)

\* Consecutive writes of bomb b are one second apart.
OneSecondApart(b) ==
    LET w == SelectSeq(trans[b], LAMBDA e : e.op = "printText")
    IN \A i \in 1..(Len(w) - 1) : w[i + 1].at - w[i].at = Second

\* C4 as stated: under an exact timer, in all six variants consecutive writes of
\* a bomb are exactly one second apart.
C4_AllSix == ExactTimer => \A b \in Bombs : OneSecondApart(b)

\* C4, amended: this holds of the five timed variants, secondBomb..sixthBomb.
C4_TimedBombs == ExactTimer => \A b \in 2..6 : OneSecondApart(b)

\* Every timed bomb has made all five writes under an exact timer.
C4_Witness == ExactTimer /\ \A b \in 2..6 : Len(Written(b)) = 5

\* Nothing is left to run: no timer, no promise job, no promise still pending.
Quiescent ==
    /\ phase = "running" /\ timers = {} /\ micro = <<>>
    /\ \A i \in Links : prom.chain[i] # "pending" /\ prom.inner[i] # "pending"

AllDone == Quiescent /\ \A b \in Bombs : Boomed(b)

\* C5: when timers always fire and the sink does not throw, every bomb ends up
\* having written "Boom!" with no timer and no promise reaction left, and a bomb
\* that has written "Boom!" never has a timer pending.
C5_RunsToCompletion ==
    /\ <>[]AllDone
    /\ [](\A b \in Bombs : Boomed(b) => \A t \in timers : t.bomb # b)

\* All six bombs went off and nothing is pending.
C5_Witness == thrown = {} /\ AllDone /\ Len(log) = 7

\* A bomb in which a sink call threw has nothing left that could run its later steps.
Stopped(b) ==
    /\ \A t \in timers : t.bomb # b
    /\ b = 6 => micro = <<>>

\* No pending work is left at all (a failed sixthBomb leaves its promises pending).
Idle == phase = "running" /\ timers = {} /\ micro = <<>>

\* C6 as stated: a bomb whose sink call threw runs no further step, and every
\* other bomb still makes its complete sequence of sink calls.
C6_Isolation ==
    /\ \A b \in thrown : Stopped(b) /\ ~Complete(b)
    /\ Idle => \A c \in Bombs \ thrown : Complete(c)

\* C6, amended: this holds when the throw is in a timed bomb; a throw in
\* firstBomb leaves deployBombs before any other bomb is started.
C6_TimedIsolation ==
    /\ \A b \in thrown : Stopped(b) /\ ~Complete(b)
    /\ Idle /\ 1 \notin thrown => \A c \in Bombs \ thrown : Complete(c)
    /\ 1 \in thrown => timers = {} /\ log = <<>> /\ \A c \in 2..6 : trans[c] = <<>>

\* A timed bomb failed part-way and the five others ran to the end.
C6_Witness ==
    \E b \in 2..6 :
        /\ thrown = {b} /\ Len(trans[b]) \in 2..5 /\ Idle
        /\ \A c \in Bombs \ {b} : Complete(c)

Offsets == <<0, 1, 6, 11, 16, 21>>

ClearedOnce(b) ==
    /\ trans[b] # <<>> => trans[b][1].op = "clear"
    /\ \A i \in 2..Len(trans[b]) : trans[b][i].op = "printText"
    /\ Len(trans[b]) >= 2 => trans[b][2].text = Header(b)

\* C8: each bomb calls clear() once, as its first sink call, and writes its header
\* in the same callback turn (unless that write throws); it never clears later.
C8_ClearFirst ==
    /\ [](\A b \in Bombs : ClearedOnce(b))
    /\ [][\A b \in Bombs :
            (trans[b] = <<>> /\ trans'[b] # <<>> /\ b \notin thrown') =>
                /\ Len(trans'[b]) >= 2
                /\ trans'[b][2].op = "printText"
                /\ trans'[b][2].at = trans'[b][1].at]_vars

\* All six bombs have cleared and written their header, and the last is finished.
C8_Witness == (\A b \in Bombs : Len(trans[b]) >= 2) /\ Complete(6)

\* The promise the whole chain of sixthBomb evaluates to.
ChainPromise == prom.chain[Len(sixthBombChain)]

\* C9: sixthBomb's chain promise is never rejected; it is fulfilled only once
\* "Boom!" is written, in the promise jobs that follow that write at the same
\* clock time, before any further timer runs.
C9_ChainSettles ==
    /\ [](ChainPromise # "rejected")
    /\ [](ChainPromise = "fulfilled" => Boomed(6))
    /\ [](Boomed(6) /\ micro = <<>> => ChainPromise = "fulfilled")
    /\ [][ChainPromise # "fulfilled" /\ ChainPromise' = "fulfilled" =>
            /\ now' = now
            /\ trans' = trans
            /\ trans[6][Len(trans[6])].text = "Boom!"
            /\ trans[6][Len(trans[6])].at = now]_vars

\* "Boom!" is written and the chain promise is still pending: its jobs are queued.
C9_Witness ==
    /\ Boomed(6) /\ ChainPromise = "pending" /\ micro # <<>>
    /\ thrown = {}

\* Two events are the same display action up to the ordinal in a header.
SameAction(e, be, f, bf) ==
    /\ e.op = f.op /\ e.at = f.at
    /\ IF e.text = Header(be) \/ f.text = Header(bf)
       THEN e.text = Header(be) /\ f.text = Header(bf)
       ELSE e.text = f.text

\* C10: thirdBomb and sixthBomb, started at the same time under an exact timer
\* with a sink that does not throw, have made the same display actions at the same
\* times (up to the ordinal) whenever no callback and no promise job is due.
C10_SameActions ==
    (/\ ExactTimer /\ thrown = {} /\ Due = {} /\ micro = <<>>
     /\ trans[3] # <<>> /\ trans[6] # <<>>
     /\ trans[3][1].at = trans[6][1].at)
    => /\ Len(trans[3]) = Len(trans[6])
       /\ \A i \in 1..Len(trans[3]) : SameAction(trans[3][i], 3, trans[6][i], 6)

\* Both started together and both ran to the end.
C10_Witness ==
    /\ ExactTimer /\ thrown = {} /\ Complete(3) /\ Complete(6)
    /\ trans[3][1].at = trans[6][1].at
    /\ timers = {} /\ micro = <<>>

ExplodedLine(b) == "The " \o Ordinal[b] \o " bomb exploded."

InLog(line) == \E i \in DOMAIN log : log[i] = line

\* How often bomb b wrote "Boom!".
Booms(b) == Len(SelectSeq(trans[b], LAMBDA e : e.text = "Boom!"))

\* The calls of the callback that boom passes to promiseToPrintText.
BoomCallbackCalls == SelectSeq(invoked[6], LAMBDA c : c.fn = "boomCallback")

\* "Boom!" is written once, the log line comes only after it, the terminal step's
\* promise is resolved only after both, and all three happen once the callback
\* ran without a throw.
C11_Outcome ==
    /\ Booms(6) <= 1
    /\ InLog(ExplodedLine(6)) => Boomed(6)
    /\ prom.inner[Len(sixthBombChain)] = "fulfilled" =>
           Boomed(6) /\ InLog(ExplodedLine(6))
    /\ BoomCallbackCalls # <<>> /\ 6 \notin thrown =>
           /\ Booms(6) = 1 /\ InLog(ExplodedLine(6))
           /\ prom.inner[Len(sixthBombChain)] = "fulfilled"

\* C11 as stated: the callback of the terminal step is called with the label
\* after "Boom!" has been written, and then the outcome above holds.
C11_CallbackAfterWrite ==
    /\ \A i \in DOMAIN BoomCallbackCalls :
          /\ BoomCallbackCalls[i].s = "Boom!"
          /\ \E j \in 1..BoomCallbackCalls[i].seen : trans[6][j].text = "Boom!"
    /\ C11_Outcome

\* C11, amended: the callback is called with the label once, before any write of
\* "Boom!" (it replaces the default printText and makes the write itself), and
\* then the outcome above holds.
C11_CallbackWrites ==
    /\ Len(BoomCallbackCalls) <= 1
    /\ \A i \in DOMAIN BoomCallbackCalls :
          /\ BoomCallbackCalls[i].s = "Boom!"
          /\ \A j \in 1..BoomCallbackCalls[i].seen : trans[6][j].text # "Boom!"
    /\ C11_Outcome

\* The callback ran: "Boom!" is on the display, the line is logged, the promise resolved.
C11_Witness ==
    /\ BoomCallbackCalls # <<>> /\ Booms(6) = 1 /\ InLog(ExplodedLine(6))
    /\ prom.inner[Len(sixthBombChain)] = "fulfilled"

TimersOf(b) == {t \in timers : t.bomb = b}

\* Consecutive writes of bomb b are at least one second apart.
SecondOrMoreApart(b) ==
    LET w == SelectSeq(trans[b], LAMBDA e : e.op = "printText")
    IN \A i \in 1..(Len(w) - 1) : w[i + 1].at - w[i].at >= Second

\* C12: a timed bomb has at most one timer outstanding (and sixthBomb never a
\* timer together with a queued handler), its writes are at least a second
\* apart, and it makes sink calls only in a step that consumes its due timer.
C12_OneTimer ==
    /\ [](\A b \in 2..6 :
            /\ Cardinality(TimersOf(b)) <= 1
            /\ SecondOrMoreApart(b))
    /\ [](TimersOf(6) # {} => \A i \in DOMAIN micro : micro[i].kind # "reaction")
    /\ [][\A b \in 2..6 :
            trans'[b] # trans[b] =>
                \E t \in TimersOf(b) : t.due <= now /\ t \notin timers']_vars

\* fourthBomb is between two steps with its one timer pending, after a late timer.
C12_Witness ==
    /\ Len(trans[4]) = 4 /\ Cardinality(TimersOf(4)) = 1
    /\ late > 0 /\ TimersOf(5) # {} /\ TimersOf(6) # {}

\* The labels bomb b wrote after its header, each with the time since the header.
AfterHeader(b) ==
    [i \in 1..(Len(trans[b]) - 2) |->
        [text |-> trans[b][i + 2].text, since |-> trans[b][i + 2].at - trans[b][2].at]]

\* C13: under an exact timer and a sink that does not throw, fourthBomb and
\* fifthBomb, once both have run to the end, have written the same labels in the
\* same order at the same times after their header.
C13_SameOutput ==
    ExactTimer /\ thrown = {} /\ Len(trans[4]) = 6 /\ Len(trans[5]) = 6
        => AfterHeader(4) = AfterHeader(5)

\* What tickBomb(n) is to write: n..., ..., 1..., Boom!  (only Boom! when n <= 0).
Countdown(n) ==
    [i \in 1..(IF n > 0 THEN n ELSE 0) |-> ToString(n - i + 1) \o "..."] \o <<"Boom!">>

\* The argument of the first call of tickBomb.
FirstTimeLeft == invoked[5][1].n

\* C14: tickBomb(n) terminates; it writes n..., ..., 1..., Boom!, its i-th write
\* (i - 1) seconds after the call under an exact timer, in max(n, 0) + 1 calls; for
\* n <= 0 it writes only Boom!, at once, and never has a timer.
C14_TickBomb ==
    /\ [](invoked[5] # <<>> =>
            /\ IsPrefix(Written(5), Countdown(FirstTimeLeft))
            /\ Len(invoked[5]) <= Len(Countdown(FirstTimeLeft))
            /\ ExactTimer =>
                   \A i \in 1..Len(trans[5]) : trans[5][i].at = (i - 1) * Second
            /\ FirstTimeLeft <= 0 => timers = {}
            /\ timers = {} /\ thrown = {} =>
                   /\ Written(5) = Countdown(FirstTimeLeft)
                   /\ Len(invoked[5]) = Len(Countdown(FirstTimeLeft)))
    /\ <>[](phase = "running" /\ timers = {})

\* tickBomb(MaxTick) has counted down to Boom!, one second per write.
C14_Witness ==
    /\ invoked[5] # <<>> /\ FirstTimeLeft = MaxTick /\ ExactTimer
    /\ Written(5) = Countdown(MaxTick) /\ timers = {}
    /\ now = MaxTick * Second

\* tickBomb called with a negative number has written Boom! and nothing else.
C14_WitnessNegative ==
    /\ invoked[5] # <<>> /\ FirstTimeLeft < 0
    /\ Written(5) = <<"Boom!">> /\ timers = {} /\ now = 0

\* The steps of fourthBomb from the i-th on.
StepsFrom(i) == SubSeq(fourthBombSteps, i, Len(fourthBombSteps))

\* C15: nextSteps is a cursor over the fixed step list of fourthBomb: the i-th step
\* function called is the i-th of the list and is handed the list from i + 1 on (so
\* no call is of undefined, no step runs twice, the array is one shorter per step
\* and empty exactly for boom); every shift finds the array non-empty; a finished
\* bomb has called all four.
C15_Cursor ==
    /\ Len(invoked[4]) <= Len(fourthBombSteps)
    /\ \A i \in DOMAIN invoked[4] :
          /\ invoked[4][i].fn = fourthBombSteps[i]
          /\ invoked[4][i].q = StepsFrom(i + 1)
          /\ invoked[4][i].q = <<>> <=> invoked[4][i].fn = "boom"
    /\ \A t \in TimersOf(4) :
          /\ t.cb = "shift" => nextSteps = fourthBombSteps
          /\ t.cb = "nextStep" => t.s # "undefined" /\ nextSteps = StepsFrom(Len(invoked[4]) + 2)
    /\ Boomed(4) => nextSteps = <<>> /\ Len(invoked[4]) = Len(fourthBombSteps)

\* fourthBomb has run all four steps and boom was handed the empty array.
C15_Witness ==
    /\ Complete(4) /\ Len(invoked[4]) = 4
    /\ invoked[4][4].fn = "boom" /\ invoked[4][4].q = <<>>
    /\ nextSteps = <<>>

Deployed == InLog("All bombs deployed.")

\* C16: deployBombs returns without waiting: 'All bombs deployed.' is logged right
\* after 'The 1st bomb exploded.', with firstBomb's six sink calls made, before any
\* sink call or log line of secondBomb..sixthBomb, in a step that takes no time and
\* leaves one timer of each of the five timed bombs pending.
C16_ReturnsAtOnce ==
    /\ [](Deployed =>
            /\ Complete(1)
            /\ Len(log) >= 2 /\ log[1] = ExplodedLine(1) /\ log[2] = "All bombs deployed.")
    /\ [](\A b \in 2..6 : trans[b] # <<>> \/ InLog(ExplodedLine(b)) => Deployed)
    /\ [][~Deployed /\ Deployed' =>
            /\ now' = now
            /\ \A b \in 2..6 : Cardinality(TimersOf(b)') = 1 /\ trans'[b] = <<>>]_vars

\* deployBombs has returned: both lines logged, no time passed, five timers pending.
C16_Witness ==
    /\ Deployed /\ Len(log) = 2 /\ now = 0
    /\ \A b \in 2..6 : Cardinality(TimersOf(b)) = 1 /\ trans[b] = <<>>

\* The 'exploded' lines of the log, in the order they were logged.
ExplodedLines == SelectSeq(log, LAMBDA l : l # "All bombs deployed.")

\* The six 'exploded' lines in the order of the bombs.
LinesInOrder == [k \in Bombs |-> ExplodedLine(k)]

\* The last sink call bomb k has made is its 'Boom!' write.
LastIsBoom(k) == trans[k] # <<>> /\ trans[k][Len(trans[k])].text = "Boom!"

\* No timer has fired late by as much as the five seconds deployBombs puts between
\* the starts of two timed bombs.
WithinGap == late < Gap

====
